---- MODULE Spec2Model ----
(***************************************************************************)
(* PreparedGeometry (src/src/prepared_geometry.rs): a wrapper that owns    *)
(* one native prepared-geometry handle and one Arc reference to a          *)
(* ContextHandle.  The model follows the handle, the Arc strong counts of  *)
(* the contexts and the native calls made by new, the ten predicates,      *)
(* set_context_handle and drop.                                            *)
(***************************************************************************)
EXTENDS Integers, FiniteSets, Sequences, TLC

NGeom == 2      \* source / argument geometries
NObj == 2       \* PreparedGeometry values ever constructed
NThread == 2    \* threads sharing a PreparedGeometry by reference
NFresh == 1     \* ContextHandle values handed to set_context_handle

Null == 0       \* the null pointer tested by ptr.is_null()

Geom == 1..NGeom
Obj == 1..NObj
Handle == 1..NObj
Ptr == 0..NObj
Thread == 1..NThread
Ctx == 1..(NGeom + NFresh)

Predicates ==
    {"contains", "contains_properly", "covered_by", "covers", "crosses",
     "disjoint", "intersects", "overlaps", "touches", "within"}

\* values a native predicate can hand back: the three documented codes and
\* two undocumented ones
RetCodes == {-1, 0, 1, 2, 3}

VARIABLES
    ctxSt,     \* [Ctx -> "unborn" | "alive" | "destroyed"]: the native context
    rc,        \* [Ctx -> Int]: strong count of the Arc<ContextHandle>
    geoms,     \* [Geom -> [alive, context]]: the ordinary geometries
    objs,      \* [Obj -> [st, ptr, context]]: the PreparedGeometry values
    hst,       \* [Ptr -> "null" | "free" | "live" | "destroyed"]: native handles
    destroys,  \* [Ptr -> Nat]: GEOSPreparedGeom_destroy_r calls per handle
    hctx,      \* [Ptr -> Ctx or 0]: context raw handle given to GEOSPrepare_r
    calls,     \* [Thread -> the predicate call the thread is inside, if any]
    lastOp     \* what the last operation did and returned

vars == <<ctxSt, rc, geoms, objs, hst, destroys, hctx, calls, lastOp>>

------------------------------------------------------------------------------
(* Results *)

Ok(b) == [ok |-> TRUE, val |-> b, err |-> ""]
Err(e) == [ok |-> FALSE, val |-> FALSE, err |-> e]

\* functions::check_geos_predicate(val, p): 1 => Ok(true), 0 => Ok(false),
\* anything else => Err tagged with the predicate
check_geos_predicate(ret_val, p) ==
    IF ret_val = 1 THEN Ok(TRUE)
    ELSE IF ret_val = 0 THEN Ok(FALSE)
    ELSE Err(p)

------------------------------------------------------------------------------
(* Arc<ContextHandle> *)

\* dropping one Arc: the strong count goes down by one
RcAfterRelease(r, c) == [r EXCEPT ![c] = @ - 1]

\* ... and the ContextHandle is dropped when that was the last Arc
StAfterRelease(st, r, c) ==
    IF r[c] = 1 THEN [st EXCEPT ![c] = "destroyed"] ELSE st

\* everything that holds an Arc to context c
Holders(c) ==
    {<<"geom", g>> : g \in {x \in Geom : geoms[x].alive /\ geoms[x].context = c}}
    \cup
    {<<"obj", o>> : o \in {x \in Obj : objs[x].st = "live" /\ objs[x].context = c}}

------------------------------------------------------------------------------
(* Accessors *)

as_raw(o) == objs[o].ptr

\* a mutant: the raw context of the prepare call is kept and used
get_raw_context_cached(o) == hctx[objs[o].ptr]

get_raw_context(o) == objs[o].context

get_context_handle(o) == objs[o].context

NoCall == [pc |-> "idle", obj |-> 0, op |-> "", g2 |-> 0, fn |-> "",
           ctx |-> 0, ptr |-> 0, n |-> 0]

NoOp == [kind |-> "init", op |-> "", fn |-> "", g |-> 0, ctx |-> 0, ptr |-> 0,
         ret |-> 0, res |-> Ok(TRUE), live |-> TRUE, n |-> 0]

\* shared borrows of o: predicate calls in flight on it
Borrowed(o) == \E t \in Thread : calls[t].pc = "called" /\ calls[t].obj = o

GeomBorrowed(g) == \E t \in Thread : calls[t].pc = "called" /\ calls[t].g2 = g

Init ==
    /\ ctxSt = [c \in Ctx |-> IF c <= NGeom THEN "alive" ELSE "unborn"]
    /\ rc = [c \in Ctx |-> IF c <= NGeom THEN 1 ELSE 0]
    /\ geoms = [g \in Geom |-> [alive |-> TRUE, context |-> g]]
    /\ objs = [o \in Obj |-> [st |-> "none", ptr |-> Null, context |-> 0]]
    /\ hst = [h \in Ptr |-> IF h = Null THEN "null" ELSE "free"]
    /\ destroys = [h \in Ptr |-> 0]
    /\ hctx = [h \in Ptr |-> 0]
    /\ calls = [t \in Thread |-> NoCall]
    /\ lastOp = NoOp

------------------------------------------------------------------------------
(* Construction *)

\* the handle GEOSPrepare_r hands out when it succeeds
FreshHandle == CHOOSE h \in Handle : hst[h] = "free" /\ \A k \in Handle : hst[k] = "free" => h <= k

\* the slot the constructed value is bound to
FreshObj == CHOOSE o \in Obj : objs[o].st = "none" /\ \A k \in Obj : objs[k].st = "none" => o <= k

\* a mutant: the null check is missing
new_from_raw_unchecked(ptr, context, caller) ==
    [ok |-> TRUE, err |-> "",
     value |-> [st |-> "live", ptr |-> ptr, context |-> context]]

new_from_raw(ptr, context, caller) ==
    IF ptr = Null
    THEN [ok |-> FALSE, err |-> "PreparedGeometry::" \o caller,
          value |-> [st |-> "none", ptr |-> Null, context |-> 0]]
    ELSE [ok |-> TRUE, err |-> "",
          value |-> [st |-> "live", ptr |-> ptr, context |-> context]]

\* a mutant: the context is borrowed from the geometry, not cloned
clone_context_borrowed(r, c) == r

\* g.clone_context(): one more Arc to the geometry's context
clone_context(r, c) == [r EXCEPT ![c] = @ + 1]

\* PreparedGeometry::new(g); ptr is what GEOSPrepare_r returns
new(g, o, ptr) ==
    /\ geoms[g].alive
    /\ \E k \in Obj : objs[k].st = "none"
    /\ o = FreshObj
    /\ \/ ptr = Null
       \/ (\E h \in Handle : hst[h] = "free") /\ ptr = FreshHandle
    /\ LET c == geoms[g].context
           cloned == clone_context(rc, c)
           r == new_from_raw(ptr, c, "new")
       IN /\ hst' = IF ptr = Null THEN hst ELSE [hst EXCEPT ![ptr] = "live"]
          /\ hctx' = IF ptr = Null THEN hctx ELSE [hctx EXCEPT ![ptr] = c]
          /\ IF r.ok
             THEN /\ objs' = [objs EXCEPT ![o] = r.value]
                  /\ rc' = cloned
                  /\ ctxSt' = ctxSt
             ELSE /\ objs' = objs
                  /\ rc' = RcAfterRelease(cloned, c)
                  /\ ctxSt' = StAfterRelease(ctxSt, cloned, c)
          /\ lastOp' = [NoOp EXCEPT !.kind = "new", !.fn = "GEOSPrepare_r", !.g = g,
                                    !.ctx = c, !.ptr = ptr, !.n = 1,
                                    !.res = IF r.ok THEN Ok(TRUE) ELSE Err(r.err)]
    /\ UNCHANGED <<geoms, destroys, calls>>

------------------------------------------------------------------------------
(* Predicates *)

PredNative(op) ==
    CASE op = "contains" -> "GEOSPreparedContains_r"
      [] op = "contains_properly" -> "GEOSPreparedContainsProperly_r"
      [] op = "covered_by" -> "GEOSPreparedCoveredBy_r"
      [] op = "covers" -> "GEOSPreparedCovers_r"
      [] op = "crosses" -> "GEOSPreparedCrosses_r"
      [] op = "disjoint" -> "GEOSPreparedDisjoint_r"
      [] op = "intersects" -> "GEOSPreparedIntersects_r"
      [] op = "overlaps" -> "GEOSPreparedOverlaps_r"
      [] op = "touches" -> "GEOSPreparedTouches_r"
      [] op = "within" -> "GEOSPreparedWithin_r"

\* a mutant: within carries the tag of contains
PredTagCopied(op) ==
    CASE op = "contains" -> "PreparedContains"
      [] op = "contains_properly" -> "PreparedContainsProperly"
      [] op = "covered_by" -> "PreparedCoveredBy"
      [] op = "covers" -> "PreparedCovers"
      [] op = "crosses" -> "PreparedCrosses"
      [] op = "disjoint" -> "PreparedDisjoint"
      [] op = "intersects" -> "PreparedIntersects"
      [] op = "overlaps" -> "PreparedOverlaps"
      [] op = "touches" -> "PreparedTouches"
      [] op = "within" -> "PreparedContains"

PredTag(op) ==
    CASE op = "contains" -> "PreparedContains"
      [] op = "contains_properly" -> "PreparedContainsProperly"
      [] op = "covered_by" -> "PreparedCoveredBy"
      [] op = "covers" -> "PreparedCovers"
      [] op = "crosses" -> "PreparedCrosses"
      [] op = "disjoint" -> "PreparedDisjoint"
      [] op = "intersects" -> "PreparedIntersects"
      [] op = "overlaps" -> "PreparedOverlaps"
      [] op = "touches" -> "PreparedTouches"
      [] op = "within" -> "PreparedWithin"

\* a mutant: the return code is compared with 1 and never checked
PredResultBool(op, ret_val) == Ok(ret_val = 1)

\* the value a predicate returns for the native return code ret_val
PredResult(op, ret_val) == check_geos_predicate(ret_val, PredTag(op))

\* a mutant: the call is made with the argument geometry's context
PredicateCallArgContext(t, o, op, g2) ==
    /\ calls[t].pc = "idle"
    /\ objs[o].st = "live"
    /\ geoms[g2].alive
    /\ calls' = [calls EXCEPT ![t] =
                   [pc |-> "called", obj |-> o, op |-> op, g2 |-> g2,
                    fn |-> PredNative(op), ctx |-> geoms[g2].context,
                    ptr |-> as_raw(o), n |-> 1]]
    /\ lastOp' = [NoOp EXCEPT !.kind = "call", !.op = op, !.fn = PredNative(op),
                              !.ctx = geoms[g2].context, !.ptr = as_raw(o),
                              !.live = (ctxSt[geoms[g2].context] = "alive"),
                              !.n = 1]
    /\ UNCHANGED <<ctxSt, rc, geoms, objs, hst, destroys, hctx>>

\* thread t enters o.op(&g2): the native function is called with the
\* object's raw context, the object's raw handle and g2's raw handle
PredicateCall(t, o, op, g2) ==
    /\ calls[t].pc = "idle"
    /\ objs[o].st = "live"
    /\ geoms[g2].alive
    /\ calls' = [calls EXCEPT ![t] =
                   [pc |-> "called", obj |-> o, op |-> op, g2 |-> g2,
                    fn |-> PredNative(op), ctx |-> get_raw_context(o),
                    ptr |-> as_raw(o), n |-> 1]]
    /\ lastOp' = [NoOp EXCEPT !.kind = "call", !.op = op, !.fn = PredNative(op),
                              !.ctx = get_raw_context(o), !.ptr = as_raw(o),
                              !.live = (ctxSt[get_raw_context(o)] = "alive"),
                              !.n = 1]
    /\ UNCHANGED <<ctxSt, rc, geoms, objs, hst, destroys, hctx>>

\* a mutant: a failed predicate frees the handle before it reports the error
PredicateReturnFreesOnError(t, ret_val) ==
    /\ calls[t].pc = "called"
    /\ calls' = [calls EXCEPT ![t] = NoCall]
    /\ lastOp' = [NoOp EXCEPT !.kind = "pred", !.op = calls[t].op, !.g = calls[t].g2,
                              !.fn = calls[t].fn, !.ctx = calls[t].ctx,
                              !.ptr = calls[t].ptr, !.ret = ret_val,
                              !.res = PredResult(calls[t].op, ret_val),
                              !.live = (ctxSt[calls[t].ctx] = "alive"),
                              !.n = calls[t].n]
    /\ destroys' = IF PredResult(calls[t].op, ret_val).ok THEN destroys
                   ELSE [destroys EXCEPT ![calls[t].ptr] = @ + 1]
    /\ UNCHANGED <<ctxSt, rc, geoms, objs, hst, hctx>>

\* the native function returns ret_val and the predicate returns
PredicateReturn(t, ret_val) ==
    /\ calls[t].pc = "called"
    /\ calls' = [calls EXCEPT ![t] = NoCall]
    /\ lastOp' = [NoOp EXCEPT !.kind = "pred", !.op = calls[t].op, !.g = calls[t].g2,
                              !.fn = calls[t].fn, !.ctx = calls[t].ctx,
                              !.ptr = calls[t].ptr, !.ret = ret_val,
                              !.res = PredResult(calls[t].op, ret_val),
                              !.live = (ctxSt[calls[t].ctx] = "alive"),
                              !.n = calls[t].n]
    /\ UNCHANGED <<ctxSt, rc, geoms, objs, hst, destroys, hctx>>

------------------------------------------------------------------------------
(* Context interchange *)

\* the ContextHandle value the caller moves into set_context_handle
FreshCtx == CHOOSE c \in Ctx : ctxSt[c] = "unborn" /\ \A k \in Ctx : ctxSt[k] = "unborn" => c <= k

\* a mutant: the context is replaced through a shared reference
set_context_handle_shared(o, context) ==
    /\ objs[o].st = "live"
    /\ \E k \in Ctx : ctxSt[k] = "unborn"
    /\ context = FreshCtx
    /\ LET old == objs[o].context
       IN /\ rc' = [RcAfterRelease(rc, old) EXCEPT ![context] = 1]
          /\ ctxSt' = [StAfterRelease(ctxSt, rc, old) EXCEPT ![context] = "alive"]
    /\ objs' = [objs EXCEPT ![o].context = context]
    /\ lastOp' = [NoOp EXCEPT !.kind = "set_context", !.ctx = context,
                              !.ptr = as_raw(o)]
    /\ UNCHANGED <<geoms, hst, destroys, hctx, calls>>

\* set_context_handle(&mut self, context): self.context = Arc::new(context)
set_context_handle(o, context) ==
    /\ objs[o].st = "live"
    /\ ~Borrowed(o)
    /\ \E k \in Ctx : ctxSt[k] = "unborn"
    /\ context = FreshCtx
    /\ LET old == objs[o].context
       IN /\ rc' = [RcAfterRelease(rc, old) EXCEPT ![context] = 1]
          /\ ctxSt' = [StAfterRelease(ctxSt, rc, old) EXCEPT ![context] = "alive"]
    /\ objs' = [objs EXCEPT ![o].context = context]
    /\ lastOp' = [NoOp EXCEPT !.kind = "set_context", !.ctx = context,
                              !.ptr = as_raw(o)]
    /\ UNCHANGED <<geoms, hst, destroys, hctx, calls>>

------------------------------------------------------------------------------
(* Destruction *)

\* a mutant: the Arc is released before the handle is destroyed
drop_context_first(o) ==
    /\ objs[o].st = "live"
    /\ ~Borrowed(o)
    /\ LET c == get_raw_context(o)
           p == as_raw(o)
       IN /\ rc' = RcAfterRelease(rc, c)
          /\ ctxSt' = StAfterRelease(ctxSt, rc, c)
          /\ destroys' = [destroys EXCEPT ![p] = @ + 1]
          /\ hst' = [hst EXCEPT ![p] = "destroyed"]
          /\ lastOp' = [NoOp EXCEPT !.kind = "drop",
                                    !.fn = "GEOSPreparedGeom_destroy_r",
                                    !.ctx = c, !.ptr = p, !.n = 1,
                                    !.live = (StAfterRelease(ctxSt, rc, c)[c] = "alive")]
    /\ objs' = [objs EXCEPT ![o].st = "dropped"]
    /\ UNCHANGED <<geoms, hctx, calls>>

\* Drop for PreparedGeometry: GEOSPreparedGeom_destroy_r(raw context, raw
\* handle), then the fields are dropped (ptr, then the Arc)
drop(o) ==
    /\ objs[o].st = "live"
    /\ ~Borrowed(o)
    /\ LET c == get_raw_context(o)
           p == as_raw(o)
       IN /\ destroys' = [destroys EXCEPT ![p] = @ + 1]
          /\ hst' = [hst EXCEPT ![p] = "destroyed"]
          /\ lastOp' = [NoOp EXCEPT !.kind = "drop",
                                    !.fn = "GEOSPreparedGeom_destroy_r",
                                    !.ctx = c, !.ptr = p, !.n = 1,
                                    !.live = (ctxSt[c] = "alive")]
          /\ rc' = RcAfterRelease(rc, c)
          /\ ctxSt' = StAfterRelease(ctxSt, rc, c)
    /\ objs' = [objs EXCEPT ![o].st = "dropped"]
    /\ UNCHANGED <<geoms, hctx, calls>>

\* the source / argument geometry goes out of scope: its Arc is released
DropGeometry(g) ==
    /\ geoms[g].alive
    /\ ~GeomBorrowed(g)
    /\ geoms' = [geoms EXCEPT ![g].alive = FALSE]
    /\ rc' = RcAfterRelease(rc, geoms[g].context)
    /\ ctxSt' = StAfterRelease(ctxSt, rc, geoms[g].context)
    /\ lastOp' = [NoOp EXCEPT !.kind = "drop_geom", !.ctx = geoms[g].context]
    /\ UNCHANGED <<objs, hst, destroys, hctx, calls>>

------------------------------------------------------------------------------
(* Specifications *)

\* the operations over geometries G, objects O, threads T, predicates P
NextOver(G, O, T, P) ==
    \/ \E g \in G, o \in O, ptr \in Ptr : new(g, o, ptr)
    \/ \E t \in T, o \in O, op \in P, g2 \in G : PredicateCall(t, o, op, g2)
    \/ \E t \in T, ret_val \in RetCodes : PredicateReturn(t, ret_val)
    \/ \E o \in O, context \in Ctx : set_context_handle(o, context)
    \/ \E o \in O : drop(o)
    \/ \E g \in G : DropGeometry(g)

\* one thread, every geometry and object: the life cycle
LifeOps == {"within"}

Next == NextOver(Geom, Obj, {1}, LifeOps)

Spec == Init /\ [][Next]_vars

\* one object, one thread, all ten predicates: the dispatch table
NextPred == NextOver({1}, {1}, {1}, Predicates)

SpecPred == Init /\ [][NextPred]_vars

\* one object shared by all threads
ConcOps == {"contains", "intersects"}

NextConc == NextOver(Geom, {1}, Thread, ConcOps)

SpecConc == Init /\ [][NextConc]_vars

TypeOK ==
    /\ ctxSt \in [Ctx -> {"unborn", "alive", "destroyed"}]
    /\ rc \in [Ctx -> Nat]
    /\ hst \in [Ptr -> {"null", "free", "live", "destroyed"}]
    /\ destroys \in [Ptr -> Nat]
    /\ \A o \in Obj : objs[o].st \in {"none", "live", "dropped"}

------------------------------------------------------------------------------
(* Properties *)

InFlight == {t \in Thread : calls[t].pc = "called"}

\* the tag and the native function the contract gives each predicate
ClaimTag ==
    [contains |-> "PreparedContains",
     contains_properly |-> "PreparedContainsProperly",
     covered_by |-> "PreparedCoveredBy",
     covers |-> "PreparedCovers",
     crosses |-> "PreparedCrosses",
     disjoint |-> "PreparedDisjoint",
     intersects |-> "PreparedIntersects",
     overlaps |-> "PreparedOverlaps",
     touches |-> "PreparedTouches",
     within |-> "PreparedWithin"]

\* C1: the handle of a constructed object is destroyed exactly once, at the
\* drop: no destroy call while the object lives (whatever predicate and
\* set_context_handle calls were made), exactly one once it is dropped, never
\* more than one on any handle and none on the null handle
C1_DestroyedExactlyOnce ==
    /\ \A o \in Obj :
         /\ objs[o].st = "live" =>
              hst[objs[o].ptr] = "live" /\ destroys[objs[o].ptr] = 0
         /\ objs[o].st = "dropped" =>
              hst[objs[o].ptr] = "destroyed" /\ destroys[objs[o].ptr] = 1
    /\ \A h \in Ptr : destroys[h] <= 1
    /\ \A h \in Ptr :
         destroys[h] = 1 => \E o \in Obj : objs[o].st = "dropped" /\ objs[o].ptr = h

\* an object is dropped after its context was replaced, another one lives on
\* after a failed predicate call
C1_Witness ==
    /\ \E o \in Obj :
         /\ objs[o].st = "dropped"
         /\ objs[o].context # hctx[objs[o].ptr]
         /\ destroys[objs[o].ptr] = 1
    /\ lastOp.kind = "pred" /\ ~lastOp.res.ok
    /\ \E o \in Obj : objs[o].st = "live" /\ objs[o].ptr = lastOp.ptr

\* C2: a predicate makes one native call and returns Ok(true) for 1,
\* Ok(false) for 0 and Err for 2 and for every other code
C2_ReturnCodeTranslation ==
    /\ \A t \in InFlight : calls[t].n = 1
    /\ lastOp.kind = "pred" =>
         /\ lastOp.n = 1
         /\ lastOp.ret = 1 => lastOp.res = Ok(TRUE)
         /\ lastOp.ret = 0 => lastOp.res = Ok(FALSE)
         /\ lastOp.ret \notin {0, 1} => ~lastOp.res.ok

\* a code outside 0, 1, 2 came back and the predicate returned Err
C2_Witness ==
    /\ lastOp.kind = "pred"
    /\ lastOp.ret \notin {0, 1, 2}
    /\ ~lastOp.res.ok

\* C3: each predicate calls its own native function and an error carries its
\* own tag; no two predicates share a tag or a native function
C3_ErrorTagIdentifiesPredicate ==
    /\ \A t \in InFlight :
         calls[t].fn = "GEOS" \o ClaimTag[calls[t].op] \o "_r"
    /\ lastOp.kind = "pred" =>
         /\ lastOp.fn = "GEOS" \o ClaimTag[lastOp.op] \o "_r"
         /\ ~lastOp.res.ok => lastOp.res.err = ClaimTag[lastOp.op]
    /\ \A a, b \in Predicates :
         a # b => PredTag(a) # PredTag(b) /\ PredNative(a) # PredNative(b)

\* within failed
C3_Witness ==
    /\ lastOp.kind = "pred"
    /\ lastOp.op = "within"
    /\ ~lastOp.res.ok
    /\ lastOp.res.err = "PreparedWithin"

\* what a step of new must do
NewStep ==
    lastOp'.kind = "new" =>
        LET p == lastOp'.ptr
            c == geoms[lastOp'.g].context
        IN /\ geoms' = geoms
           /\ destroys' = destroys
           /\ ctxSt' = ctxSt
           /\ p # Null =>
                /\ lastOp'.res.ok
                /\ \E o \in Obj :
                     /\ objs[o].st = "none"
                     /\ objs' = [objs EXCEPT ![o] =
                                   [st |-> "live", ptr |-> p, context |-> c]]
                /\ rc' = [rc EXCEPT ![c] = @ + 1]
           /\ p = Null =>
                /\ lastOp'.res = Err("PreparedGeometry::new")
                /\ objs' = objs
                /\ rc' = rc
                /\ hst' = hst

\* C4: construction is all or nothing: a non-null handle gives an object
\* with that handle and one more reference to the source's context; a null
\* handle gives the error naming PreparedGeometry::new, no object, no
\* destroy call and the reference count of before; the source is unchanged
C4_ConstructionAllOrNothing ==
    /\ [][NewStep]_vars
    /\ [](\A o \in Obj : objs[o].st # "none" => objs[o].ptr # Null)
    /\ [](destroys[Null] = 0)

\* a failed construction from a geometry whose context a prepared object shares
C4_Witness ==
    /\ lastOp.kind = "new"
    /\ ~lastOp.res.ok
    /\ rc[lastOp.ctx] = 2
    /\ \E o \in Obj : objs[o].st = "live" /\ objs[o].context = lastOp.ctx

\* C5: a context is alive while anything holds it and is destroyed only
\* when nothing does; the count is the number of holders
C5_ContextAliveWhileHeld ==
    \A c \in Ctx :
        /\ Holders(c) # {} => ctxSt[c] = "alive"
        /\ ctxSt[c] = "destroyed" => Holders(c) = {}
        /\ ctxSt[c] # "unborn" => rc[c] = Cardinality(Holders(c))

\* the source geometry and a second prepared object of the same context
\* are gone, the first prepared object still holds the context
C5_Witness ==
    \E o \in Obj, k \in Obj :
        /\ objs[o].st = "live"
        /\ objs[k].st = "dropped"
        /\ objs[o].context = hctx[objs[o].ptr]
        /\ hctx[objs[k].ptr] = objs[o].context
        /\ objs[k].context = objs[o].context
        /\ ~geoms[objs[o].context].alive
        /\ ctxSt[objs[o].context] = "alive"

\* what a step of set_context_handle must do
SetContextStep ==
    lastOp'.kind = "set_context" =>
        \E o \in Obj :
            LET old == objs[o].context
                new_ctx == lastOp'.ctx
            IN /\ objs[o].st = "live"
               /\ ctxSt[new_ctx] = "unborn"
               /\ objs' = [objs EXCEPT ![o].context = new_ctx]
               /\ objs'[o].ptr = objs[o].ptr
               /\ objs'[o].context = new_ctx
               /\ rc' = [rc EXCEPT ![old] = @ - 1, ![new_ctx] = 1]
               /\ ctxSt'[new_ctx] = "alive"
               /\ (ctxSt'[old] = "destroyed") <=> (rc[old] = 1)
               /\ \A c \in Ctx \ {old, new_ctx} : ctxSt'[c] = ctxSt[c]
               /\ lastOp'.n = 0
               /\ lastOp'.res.ok
               /\ UNCHANGED <<geoms, hst, destroys, hctx, calls>>

\* the destroy call of a drop passes the context the object holds
DropStep ==
    lastOp'.kind = "drop" =>
        \E o \in Obj :
            /\ objs[o].st = "live"
            /\ objs'[o].st = "dropped"
            /\ lastOp'.ctx = objs[o].context
            /\ lastOp'.ptr = objs[o].ptr

\* C6: set_context_handle releases the held context (destroyed only when
\* the object was its last holder) and holds the new one; the handle is
\* unchanged and no native call is made; afterwards every native call of the
\* object passes the raw handle of the context it holds
C6_ReplaceContext ==
    /\ [][SetContextStep /\ DropStep]_vars
    /\ [](\A t \in InFlight : calls[t].ctx = get_context_handle(calls[t].obj))

\* a predicate call in flight passes a context given by set_context_handle
C6_Witness ==
    \E t \in InFlight :
        /\ calls[t].ctx = objs[calls[t].obj].context
        /\ calls[t].ctx # hctx[calls[t].ptr]
        /\ calls[t].ctx \notin Geom

\* what the two steps of a predicate call must leave alone
PredicateStep ==
    lastOp'.kind \in {"call", "pred"} =>
        UNCHANGED <<ctxSt, rc, geoms, objs, hst, destroys, hctx>>

\* C7: a predicate call changes no state whatever it returns: the handle,
\* the held context and its count and both geometries stay as they were, and
\* the call is made with the object's own context
C7_PredicateChangesNothing ==
    /\ [][PredicateStep]_vars
    /\ [](\A t \in InFlight :
            /\ calls[t].ctx = objs[calls[t].obj].context
            /\ calls[t].ptr = objs[calls[t].obj].ptr)

\* a predicate returned Err; its argument has another context than the
\* object, and the object is still live with the same handle and context
C7_Witness ==
    /\ lastOp.kind = "pred"
    /\ ~lastOp.res.ok
    /\ geoms[lastOp.g].context # lastOp.ctx
    /\ \E o \in Obj :
         /\ objs[o].st = "live"
         /\ objs[o].ptr = lastOp.ptr
         /\ objs[o].context = lastOp.ctx
         /\ hst[objs[o].ptr] = "live"

\* C8: in every interleaving of predicate calls on a shared object, a call in
\* flight sees the object, handle and context it was made with, alive and
\* unchanged (the handle is not destroyed under it), and it returns the
\* translation of its own native return code
C8_ConcurrentPredicates ==
    /\ \A t \in InFlight :
         LET k == calls[t]
         IN /\ objs[k.obj].st = "live"
            /\ objs[k.obj].ptr = k.ptr
            /\ objs[k.obj].context = k.ctx
            /\ hst[k.ptr] = "live"
            /\ destroys[k.ptr] = 0
            /\ ctxSt[k.ctx] = "alive"
            /\ geoms[k.g2].alive
    /\ lastOp.kind = "pred" =>
         /\ lastOp.live
         /\ lastOp.res = IF lastOp.ret = 1 THEN Ok(TRUE)
                         ELSE IF lastOp.ret = 0 THEN Ok(FALSE)
                         ELSE Err(ClaimTag[lastOp.op])

\* every thread is inside a predicate call on the same object
C8_Witness ==
    /\ InFlight = Thread
    /\ \A t, u \in Thread : calls[t].obj = calls[u].obj
    /\ \E t, u \in Thread : calls[t].op # calls[u].op

\* C10 as stated: the context a handle was prepared with is alive as long as
\* the handle is not destroyed
C10_PreparingContextAlive ==
    \A h \in Handle : hst[h] = "live" => ctxSt[hctx[h]] = "alive"

\* C10, amended: the context the object holds is alive at every native call
\* on its handle, the destroy call included, and is released only after the
\* destroy; the preparing context is alive as long as the object holds it
C10_HeldContextAlive ==
    /\ \A o \in Obj : objs[o].st = "live" => ctxSt[objs[o].context] = "alive"
    /\ \A o \in Obj :
         objs[o].st = "live" /\ objs[o].context = hctx[objs[o].ptr] =>
             ctxSt[hctx[objs[o].ptr]] = "alive"
    /\ \A t \in InFlight : ctxSt[calls[t].ctx] = "alive"
    /\ lastOp.kind \in {"call", "pred", "drop"} => lastOp.live

\* the dropped object was the last holder: its context was alive at the
\* destroy call and is destroyed after it
C10_Witness ==
    /\ lastOp.kind = "drop"
    /\ lastOp.live
    /\ ctxSt[lastOp.ctx] = "destroyed"
    /\ destroys[lastOp.ptr] = 1

====
